---- MODULE Spec2Model ----
(***************************************************************************)
(* Tuple-keyed store backends of great_expectations                        *)
(* (data_context/store/tuple_store_backend.py): the key <-> path codec of  *)
(* TupleStoreBackend, and the filesystem, S3 and GCS backends built on it; *)
(* and the constructor of SqlAlchemyDatasource                             *)
(* (datasource/sqlalchemy_datasource.py).                                  *)
(*                                                                         *)
(* Representation.  A Python str is a sequence of one-character strings    *)
(* ("a/b" is <<"a", "/", "b">>).  A key is a tuple of such strings.  A     *)
(* filepath template is a sequence of tokens: a one-character literal, or  *)
(* one of the placeholder tokens "{0}", "{1}", "{2}", which stand for the  *)
(* three characters the regular expression {\d+} finds.  An optional       *)
(* value (None or a value) is a sequence of length 0 or 1.  The platform   *)
(* is POSIX: os.sep is "/" and os.path is posixpath.                       *)
(***************************************************************************)
EXTENDS Integers, Sequences, FiniteSets, TLC

VARIABLES
    backend,   \* the constructed backend: its attributes
    files,     \* the file system: <<node, content>> of every file
    dirs,      \* the file system: the directory nodes
    last,      \* the call being made: arguments and outcome
    written,   \* history: <<key, value>> of the latest set of each key that no
               \* later remove_key or move of that key followed
    datasource, \* the SqlAlchemyDatasource under construction, or None
    bucket,    \* the blob store: <<object name, content>> of every object
    held       \* history: the keys set or moved to, and not since removed or
               \* moved away

vars == <<backend, files, dirs, last, written, datasource, bucket, held>>

None == <<>>
Some(x) == <<x>>
\* Python truthiness of an optional str: None and "" are falsy.
Truthy(o) == o # None /\ o[1] # <<>>

SEP == "/"
DOT == <<".">>
DOTDOT == <<".", ".">>

(***************************************************************************)
(* str methods                                                             *)
(***************************************************************************)
StartsWith(s, p) == Len(p) <= Len(s) /\ SubSeq(s, 1, Len(p)) = p

EndsWith(s, p) == Len(p) <= Len(s) /\ SubSeq(s, Len(s) - Len(p) + 1, Len(s)) = p

\* sub in s
Contains(s, sub) ==
    \E i \in 1..(Len(s) - Len(sub) + 1) : SubSeq(s, i, i + Len(sub) - 1) = sub

\* s[n:]
DropFirst(s, n) == SubSeq(s, n + 1, Len(s))

\* s[:-n], n > 0
DropLast(s, n) == SubSeq(s, 1, Len(s) - n)

\* s.split(c)
RECURSIVE StrSplit(_, _)
StrSplit(s, c) ==
    IF \A i \in 1..Len(s) : s[i] # c
    THEN <<s>>
    ELSE LET i == CHOOSE i \in 1..Len(s) : s[i] = c /\ \A j \in 1..(i - 1) : s[j] # c
         IN <<SubSeq(s, 1, i - 1)>> \o StrSplit(SubSeq(s, i + 1, Len(s)), c)

\* c.join(parts)
RECURSIVE StrJoin(_, _)
StrJoin(parts, c) ==
    IF Len(parts) = 0 THEN <<>>
    ELSE IF Len(parts) = 1 THEN parts[1]
    ELSE parts[1] \o <<c>> \o StrJoin(Tail(parts), c)

\* s.rstrip("/")
RECURSIVE RStripSep(_)
RStripSep(s) ==
    IF Len(s) > 0 /\ s[Len(s)] = SEP THEN RStripSep(SubSeq(s, 1, Len(s) - 1)) ELSE s

(***************************************************************************)
(* posixpath                                                               *)
(***************************************************************************)
RECURSIVE NormFold(_, _, _)
NormFold(comps, acc, initial_slashes) ==
    IF Len(comps) = 0 THEN acc
    ELSE LET comp == Head(comps)
             rest == Tail(comps)
         IN IF comp = <<>> \/ comp = DOT
            THEN NormFold(rest, acc, initial_slashes)
            ELSE IF \/ comp # DOTDOT
                    \/ (initial_slashes = 0 /\ Len(acc) = 0)
                    \/ (Len(acc) > 0 /\ acc[Len(acc)] = DOTDOT)
            THEN NormFold(rest, Append(acc, comp), initial_slashes)
            ELSE IF Len(acc) > 0
            THEN NormFold(rest, SubSeq(acc, 1, Len(acc) - 1), initial_slashes)
            ELSE NormFold(rest, acc, initial_slashes)

\* os.path.normpath
normpath(path) ==
    IF Len(path) = 0 THEN DOT
    ELSE LET initial_slashes ==
                 IF ~StartsWith(path, <<SEP>>) THEN 0
                 ELSE IF StartsWith(path, <<SEP, SEP>>) /\ ~StartsWith(path, <<SEP, SEP, SEP>>)
                 THEN 2 ELSE 1
             comps == NormFold(StrSplit(path, SEP), <<>>, initial_slashes)
             joined == [i \in 1..initial_slashes |-> SEP] \o StrJoin(comps, SEP)
         IN IF Len(joined) = 0 THEN DOT ELSE joined

\* os.path.join(a, b)
os_path_join(a, b) ==
    IF StartsWith(b, <<SEP>>) THEN b
    ELSE IF Len(a) = 0 \/ a[Len(a)] = SEP THEN a \o b
    ELSE a \o <<SEP>> \o b

\* os.path.join(*parts), parts non-empty
RECURSIVE os_path_join_all(_)
os_path_join_all(parts) ==
    IF Len(parts) = 1 THEN parts[1]
    ELSE os_path_join(os_path_join_all(SubSeq(parts, 1, Len(parts) - 1)), parts[Len(parts)])

\* the index just after the last "/" of p, minus one (p.rfind("/") + 1)
RFindSep(p) ==
    IF \A i \in 1..Len(p) : p[i] # SEP THEN 0
    ELSE CHOOSE i \in 1..Len(p) : p[i] = SEP /\ \A j \in (i + 1)..Len(p) : p[j] # SEP

\* os.path.split(p): <<head, tail>>
os_path_split(p) ==
    LET i == RFindSep(p)
        head == SubSeq(p, 1, i)
        tail == SubSeq(p, i + 1, Len(p))
    IN <<IF Len(head) > 0 /\ RStripSep(head) # <<>> THEN RStripSep(head) ELSE head, tail>>

\* os.path.dirname(p)
os_path_dirname(p) == os_path_split(p)[1]

\* os.path.isabs(p)
os_path_isabs(p) == StartsWith(p, <<SEP>>)

(***************************************************************************)
(* TupleStoreBackend: configuration and the key <-> filepath codec         *)
(***************************************************************************)
Placeholders == {"{0}", "{1}", "{2}"}

\* int(re.search(r"\d+", placeholder).group(0))
PlaceholderIndex(tok) == CASE tok = "{0}" -> 0 [] tok = "{1}" -> 1 [] tok = "{2}" -> 2

\* re.findall(r"{\d+}", template)
RECURSIVE FindPlaceholders(_)
FindPlaceholders(template) ==
    IF Len(template) = 0 THEN <<>>
    ELSE IF Head(template) \in Placeholders
    THEN <<Head(template)>> \o FindPlaceholders(Tail(template))
    ELSE FindPlaceholders(Tail(template))

\* __init__: key_length = len(set(re.findall(r"{\d+}", filepath_template)))
key_length(cfg) ==
    LET found == FindPlaceholders(cfg.filepath_template[1])
    IN Cardinality({found[i] : i \in 1..Len(found)})

\* StoreBackend._validate_key, called at line 64, belongs to the base class,
\* which is not among these sources.  The specification gives key validation
\* two parts, every element non-empty and free of forbidden substrings; the
\* second is the loop of lines 66-73, the first is taken to be the base class's.
StoreBackendValidateKeyRaises(key) == \E i \in 1..Len(key) : key[i] = <<>>

\* _validate_key: the loop over key elements and forbidden substrings
ValidateKeyRaises(cfg, key) ==
    \E i \in 1..Len(key) : \E substring \in cfg.forbidden_substrings :
        Contains(key[i], substring)

\* filepath_template.format(*list(key)): does it raise IndexError
FormatRaises(template, key) ==
    \E i \in 1..Len(template) :
        template[i] \in Placeholders /\ PlaceholderIndex(template[i]) >= Len(key)

RECURSIVE FormatText(_, _)
FormatText(template, key) ==
    IF Len(template) = 0 THEN <<>>
    ELSE (IF Head(template) \in Placeholders
          THEN key[PlaceholderIndex(Head(template)) + 1]
          ELSE <<Head(template)>>) \o FormatText(Tail(template), key)

NoPath == [raised |-> "", path |-> <<>>]

\* the encoder without its call of _validate_key
convert_key_to_filepath_unvalidated(cfg, key) ==
    IF Truthy(cfg.filepath_template) /\ FormatRaises(cfg.filepath_template[1], key)
    THEN [NoPath EXCEPT !.raised = "IndexError"]
    ELSE LET s1 == IF Truthy(cfg.filepath_template)
                   THEN FormatText(cfg.filepath_template[1], key)
                   ELSE StrJoin(key, SEP)
             s2 == IF Truthy(cfg.filepath_prefix)
                   THEN cfg.filepath_prefix[1] \o <<SEP>> \o s1 ELSE s1
             s3 == IF Truthy(cfg.filepath_suffix)
                   THEN s2 \o cfg.filepath_suffix[1] ELSE s2
             s4 == IF cfg.platform_specific_separator THEN normpath(s3) ELSE s3
         IN [raised |-> "", path |-> s4]

\* _convert_key_to_filepath
convert_key_to_filepath(cfg, key) ==
    IF StoreBackendValidateKeyRaises(key) THEN [NoPath EXCEPT !.raised = "InvalidKeyError"]
    ELSE IF ValidateKeyRaises(cfg, key) THEN [NoPath EXCEPT !.raised = "ValueError"]
    ELSE IF Truthy(cfg.filepath_template) /\ FormatRaises(cfg.filepath_template[1], key)
    THEN [NoPath EXCEPT !.raised = "IndexError"]
    ELSE LET s1 == IF Truthy(cfg.filepath_template)
                   THEN FormatText(cfg.filepath_template[1], key)
                   ELSE StrJoin(key, SEP)
             s2 == IF Truthy(cfg.filepath_prefix)
                   THEN cfg.filepath_prefix[1] \o <<SEP>> \o s1 ELSE s1
             s3 == IF Truthy(cfg.filepath_suffix)
                   THEN s2 \o cfg.filepath_suffix[1] ELSE s2
             s4 == IF cfg.platform_specific_separator THEN normpath(s3) ELSE s3
         IN [raised |-> "", path |-> s4]

(***************************************************************************)
(* re: the regular expression built from the template.  An element is a    *)
(* placeholder (a greedy named group matching any characters) or a literal *)
(* character; the literal "." is the regex metacharacter matching any      *)
(* character.  match() is anchored at the start only and backtracks from   *)
(* the longest capture down.  The result is None or the tuple of captures. *)
(***************************************************************************)
RECURSIVE ReMatch(_, _)
RECURSIVE ReGroup(_, _, _)
ReMatch(regex, s) ==
    IF Len(regex) = 0 THEN Some(<<>>)
    ELSE IF Head(regex) \in Placeholders THEN ReGroup(regex, s, Len(s))
    ELSE IF Len(s) > 0 /\ (Head(regex) = "." \/ Head(regex) = s[1])
    THEN ReMatch(Tail(regex), Tail(s))
    ELSE None

ReGroup(regex, s, n) ==
    LET rest == ReMatch(Tail(regex), SubSeq(s, n + 1, Len(s)))
    IN IF rest # None THEN Some(<<SubSeq(s, 1, n)>> \o rest[1])
       ELSE IF n = 0 THEN None
       ELSE ReGroup(regex, s, n - 1)

\* a slot of new_key that was never assigned (Python None)
Unset == <<"None">>

\* the assignment loop keeping the first capture of a repeated placeholder
RECURSIVE AssignGroupsFirstWins(_, _, _)
AssignGroupsFirstWins(new_key, subs, caps) ==
    IF Len(subs) = 0 THEN new_key
    ELSE AssignGroupsFirstWins(
             IF new_key[PlaceholderIndex(Head(subs)) + 1] = Unset
             THEN [new_key EXCEPT ![PlaceholderIndex(Head(subs)) + 1] = Head(caps)]
             ELSE new_key,
             Tail(subs), Tail(caps))

\* lines 155-161: new_key[tuple_index] = capture, in template order
RECURSIVE AssignGroups(_, _, _)
AssignGroups(new_key, subs, caps) ==
    IF Len(subs) = 0 THEN new_key
    ELSE AssignGroups([new_key EXCEPT ![PlaceholderIndex(Head(subs)) + 1] = Head(caps)],
                      Tail(subs), Tail(caps))

NoKey == [raised |-> "", key |-> None]

\* lines 129-163: the template branch of _convert_filepath_to_key
DecodeTemplate(cfg, filepath) ==
    LET filepath_template ==
            IF cfg.platform_specific_separator
            THEN os_path_join_all(StrSplit(cfg.filepath_template[1], SEP))
            ELSE cfg.filepath_template[1]
        indexed_string_substitutions == FindPlaceholders(filepath_template)
        matches == ReMatch(filepath_template, filepath)
    IN IF matches = None THEN NoKey
       ELSE IF \E i \in 1..Len(indexed_string_substitutions) :
                   PlaceholderIndex(indexed_string_substitutions[i]) >= key_length(cfg)
       THEN [NoKey EXCEPT !.raised = "IndexError"]
       ELSE [raised |-> "",
             key |-> Some(AssignGroups([i \in 1..key_length(cfg) |-> Unset],
                                       indexed_string_substitutions, matches[1]))]

\* the decoder removing the prefix without the separator after it
convert_filepath_to_key_prefix_only(cfg, path) ==
    LET f1 == IF cfg.platform_specific_separator THEN normpath(path) ELSE path
        prefix_raises ==
            /\ Truthy(cfg.filepath_prefix)
            /\ ~StartsWith(f1, cfg.filepath_prefix[1])
            /\ Len(f1) >= Len(cfg.filepath_prefix[1]) + 1
        f2 == IF Truthy(cfg.filepath_prefix)
              THEN DropFirst(f1, Len(cfg.filepath_prefix[1])) ELSE f1
        suffix_raises ==
            Truthy(cfg.filepath_suffix) /\ ~EndsWith(f2, cfg.filepath_suffix[1])
        f3 == IF Truthy(cfg.filepath_suffix)
              THEN DropLast(f2, Len(cfg.filepath_suffix[1])) ELSE f2
    IN IF prefix_raises \/ suffix_raises THEN [NoKey EXCEPT !.raised = "ValueError"]
       ELSE IF Truthy(cfg.filepath_template) THEN DecodeTemplate(cfg, f3)
       ELSE [raised |-> "", key |-> Some(StrSplit(normpath(f3), SEP))]

\* _convert_filepath_to_key
convert_filepath_to_key(cfg, path) ==
    LET f1 == IF cfg.platform_specific_separator THEN normpath(path) ELSE path
        prefix_raises ==
            /\ Truthy(cfg.filepath_prefix)
            /\ ~StartsWith(f1, cfg.filepath_prefix[1])
            /\ Len(f1) >= Len(cfg.filepath_prefix[1]) + 1
        f2 == IF Truthy(cfg.filepath_prefix)
              THEN DropFirst(f1, Len(cfg.filepath_prefix[1]) + 1) ELSE f1
        suffix_raises ==
            Truthy(cfg.filepath_suffix) /\ ~EndsWith(f2, cfg.filepath_suffix[1])
        f3 == IF Truthy(cfg.filepath_suffix)
              THEN DropLast(f2, Len(cfg.filepath_suffix[1])) ELSE f2
    IN IF prefix_raises \/ suffix_raises THEN [NoKey EXCEPT !.raised = "ValueError"]
       ELSE IF Truthy(cfg.filepath_template) THEN DecodeTemplate(cfg, f3)
       ELSE [raised |-> "", key |-> Some(StrSplit(normpath(f3), SEP))]

(***************************************************************************)
(* Construction                                                            *)
(***************************************************************************)
\* get_random_hex draws size characters from "ABCDEF0123456789"; the draws
\* explored are those over HexChars.
HexSize == 4
HexChars == {"A", "0"}
HexStrings == [1..HexSize -> HexChars]

\* verify_that_key_to_filepath_operation_is_reversible for one drawn key:
\* the name of the exception it ends with, or "" when it passes
VerifyOutcome(cfg, key) ==
    LET filepath == convert_key_to_filepath(cfg, key)
        new_key == convert_filepath_to_key(cfg, filepath.path)
    IN IF filepath.raised # "" THEN filepath.raised
       ELSE IF new_key.raised # "" THEN new_key.raised
       ELSE IF new_key.key # Some(key) THEN "ValueError"
       ELSE ""

\* TupleStoreBackend.__init__: the outcomes construction can have, over the
\* random draws of the self-check
InitOutcomes(cfg) ==
    IF cfg.filepath_template # None /\ cfg.filepath_suffix # None THEN {"ValueError"}
    ELSE IF /\ Truthy(cfg.filepath_prefix)
            /\ <<cfg.filepath_prefix[1][Len(cfg.filepath_prefix[1])]>> \in cfg.forbidden_substrings
    THEN {"StoreBackendError"}
    ELSE IF cfg.filepath_template = None THEN {""}
    ELSE {VerifyOutcome(cfg, key) : key \in [1..key_length(cfg) -> HexStrings]}

\* a backend object exists only when __init__ returned
Constructed(cfg) == "" \in InitOutcomes(cfg)

\* forbidden_substrings = ["/", "\\"]
DefaultForbidden == {<<"/">>, <<"\\">>}

\* the keyword defaults of TupleFilesystemStoreBackend.__init__
FilesystemDefaults ==
    [variant |-> "filesystem",
     filepath_template |-> None,
     filepath_prefix |-> None,
     filepath_suffix |-> None,
     forbidden_substrings |-> DefaultForbidden,
     platform_specific_separator |-> TRUE,
     full_base_directory |-> <<"/", "r", "/", "b">>]

\* the record of a call: its arguments, the exception it raised or what it
\* returned
Idle ==
    [op |-> "", key |-> <<>>, dest |-> <<>>, value |-> "", path |-> <<>>,
     raised |-> "", returned |-> "", rkey |-> None, rtext |-> <<>>, rkeys |-> {},
     caught |-> ""]

(***************************************************************************)
(* The file system.  A node is the tuple of path segments below "/" that a *)
(* path resolves to (there are no symbolic links); dirs is the set of      *)
(* directory nodes and files the set of <<node, content>> pairs.           *)
(***************************************************************************)
RECURSIVE NonEmpty(_)
NonEmpty(parts) ==
    IF Len(parts) = 0 THEN <<>>
    ELSE IF Head(parts) = <<>> THEN NonEmpty(Tail(parts))
    ELSE <<Head(parts)>> \o NonEmpty(Tail(parts))

Node(path) == NonEmpty(StrSplit(normpath(path), SEP))

IsFile(fs, n) == \E f \in fs.files : f[1] = n
IsDir(fs, n) == n \in fs.dirs
Exists(fs, n) == IsFile(fs, n) \/ IsDir(fs, n)
Content(fs, n) == (CHOOSE f \in fs.files : f[1] = n)[2]
IsUnder(n, d) == Len(n) > Len(d) /\ SubSeq(n, 1, Len(d)) = d
Entries(fs) == fs.dirs \cup {f[1] : f \in fs.files}
\* os.listdir
ListDir(fs, d) == {n \in Entries(fs) : Len(n) = Len(d) + 1 /\ IsUnder(n, d)}
Parent(n) == SubSeq(n, 1, Len(n) - 1)
Ancestors(n) == {SubSeq(n, 1, i) : i \in 0..(Len(n) - 1)}

Ok(fs) == [raised |-> "", fs |-> fs]
Fail(fs, exc) == [raised |-> exc, fs |-> fs]

\* os.makedirs(path, exist_ok=True)
makedirs(fs, path) ==
    LET n == Node(path)
    IN IF \E a \in Ancestors(n) : IsFile(fs, a) THEN Fail(fs, "NotADirectoryError")
       ELSE IF IsFile(fs, n) THEN Fail(fs, "FileExistsError")
       ELSE Ok([fs EXCEPT !.dirs = @ \cup Ancestors(n) \cup {n}])

\* a write that leaves the content of an existing file in place
WriteFileKeeping(fs, path, value) ==
    LET n == Node(path)
    IN IF IsDir(fs, n) THEN Fail(fs, "IsADirectoryError")
       ELSE IF \E a \in Ancestors(n) : IsFile(fs, a) THEN Fail(fs, "NotADirectoryError")
       ELSE IF ~IsDir(fs, Parent(n)) THEN Fail(fs, "FileNotFoundError")
       ELSE IF IsFile(fs, n) THEN Ok(fs)
       ELSE Ok([fs EXCEPT !.files = @ \cup {<<n, value>>}])

\* open(path, "wb") and write(value)
WriteFile(fs, path, value) ==
    LET n == Node(path)
    IN IF IsDir(fs, n) THEN Fail(fs, "IsADirectoryError")
       ELSE IF \E a \in Ancestors(n) : IsFile(fs, a) THEN Fail(fs, "NotADirectoryError")
       ELSE IF ~IsDir(fs, Parent(n)) THEN Fail(fs, "FileNotFoundError")
       ELSE Ok([fs EXCEPT !.files = {f \in @ : f[1] # n} \cup {<<n, value>>}])

\* open(path): the exception reading raises, "" when it returns the content
ReadRaises(fs, path) ==
    LET n == Node(path)
    IN IF IsFile(fs, n) THEN ""
       ELSE IF IsDir(fs, n) THEN "IsADirectoryError"
       ELSE IF \E a \in Ancestors(n) : IsFile(fs, a) THEN "NotADirectoryError"
       ELSE "FileNotFoundError"

\* os.remove
os_remove(fs, path) ==
    LET n == Node(path)
    IN IF IsDir(fs, n) THEN Fail(fs, "IsADirectoryError")
       ELSE IF ~IsFile(fs, n) THEN Fail(fs, "FileNotFoundError")
       ELSE Ok([fs EXCEPT !.files = {f \in @ : f[1] # n}])

\* os.rename of an existing source onto a destination that is no directory
\* and does not lie inside the source
Rename(fs, s, t) ==
    IF s = t THEN fs
    ELSE IF IsFile(fs, s)
    THEN [fs EXCEPT !.files = {f \in @ : f[1] # s /\ f[1] # t} \cup {<<t, Content(fs, s)>>}]
    ELSE LET moved(n) == t \o SubSeq(n, Len(s) + 1, Len(n))
             in_s(n) == n = s \/ IsUnder(n, s)
         IN [dirs |-> {n \in fs.dirs : ~in_s(n)} \cup {moved(n) : n \in {m \in fs.dirs : in_s(m)}},
             files |-> {f \in fs.files : ~in_s(f[1])}
                       \cup {<<moved(f[1]), f[2]>> : f \in {g \in fs.files : in_s(g[1])}}]

\* shutil.move(src, dst) for an existing src
shutil_move(fs, src, dst) ==
    LET s == Node(src)
        d == Node(dst)
        real_dst == IF IsDir(fs, d) /\ s # d THEN Append(d, s[Len(s)]) ELSE d
    IN IF IsDir(fs, d) /\ s # d /\ Exists(fs, real_dst) THEN Fail(fs, "Error")
       ELSE IF IsDir(fs, s) /\ IsUnder(real_dst, s) THEN Fail(fs, "Error")
       ELSE IF IsDir(fs, s) /\ IsFile(fs, real_dst) THEN Fail(fs, "FileExistsError")
       ELSE Ok(Rename(fs, s, real_dst))

(***************************************************************************)
(* TupleFilesystemStoreBackend                                             *)
(***************************************************************************)
\* __init__, lines 215-229: the exception raised, or "" and the directory
FullBaseDirectory(base_directory, root_directory) ==
    IF os_path_isabs(base_directory) THEN [raised |-> "", path |-> base_directory]
    ELSE IF root_directory = None THEN [NoPath EXCEPT !.raised = "ValueError"]
    ELSE IF ~os_path_isabs(root_directory[1]) THEN [NoPath EXCEPT !.raised = "ValueError"]
    ELSE [raised |-> "", path |-> os_path_join(root_directory[1], base_directory)]

Call(op) == [Idle EXCEPT !.op = op]

\* the calls made on a store; "foreign" is another program's write
StoreCalls ==
    {"get", "set", "move", "remove_key", "has_key", "get_url_for_key", "list_keys",
     "foreign"}

FullPath(cfg, relative) == os_path_join(cfg.full_base_directory, relative)

\* _get
fs_get(cfg, fs, key) ==
    LET p == convert_key_to_filepath(cfg, key)
        filepath == FullPath(cfg, p.path)
        exc == IF p.raised # "" THEN p.raised ELSE ReadRaises(fs, filepath)
    IN [fs |-> fs,
        out |-> [Call("get") EXCEPT
                    !.key = key, !.raised = exc,
                    !.returned = IF exc = "" THEN "value" ELSE "",
                    !.value = IF exc = "" THEN Content(fs, Node(filepath)) ELSE ""]]

\* _set
fs_set(cfg, fs, key, value) ==
    LET p == convert_key_to_filepath(cfg, key)
        filepath == FullPath(cfg, p.path)
        made == makedirs(fs, os_path_split(filepath)[1])
        wrote == WriteFile(made.fs, filepath, value)
        call == [Call("set") EXCEPT !.key = key, !.value = value]
    IN IF p.raised # "" THEN [fs |-> fs, out |-> [call EXCEPT !.raised = p.raised]]
       ELSE IF made.raised # "" THEN [fs |-> made.fs, out |-> [call EXCEPT !.raised = made.raised]]
       ELSE IF wrote.raised # ""
       THEN [fs |-> wrote.fs, out |-> [call EXCEPT !.raised = wrote.raised]]
       ELSE [fs |-> wrote.fs,
             out |-> [call EXCEPT !.returned = "path", !.rtext = filepath]]

\* _move
fs_move(cfg, fs, source_key, dest_key) ==
    LET sp == convert_key_to_filepath(cfg, source_key)
        dp == convert_key_to_filepath(cfg, dest_key)
        source_path == FullPath(cfg, sp.path)
        dest_path == FullPath(cfg, dp.path)
        made == makedirs(fs, os_path_split(dest_path)[1])
        moved == shutil_move(made.fs, source_path, dest_path)
        call == [Call("move") EXCEPT !.key = source_key, !.dest = dest_key]
    IN IF sp.raised # "" THEN [fs |-> fs, out |-> [call EXCEPT !.raised = sp.raised]]
       ELSE IF dp.raised # "" THEN [fs |-> fs, out |-> [call EXCEPT !.raised = dp.raised]]
       ELSE IF ~Exists(fs, Node(source_path))
       THEN [fs |-> fs, out |-> [call EXCEPT !.returned = "False"]]
       ELSE IF made.raised # "" THEN [fs |-> made.fs, out |-> [call EXCEPT !.raised = made.raised]]
       ELSE IF moved.raised # ""
       THEN [fs |-> moved.fs, out |-> [call EXCEPT !.raised = moved.raised]]
       ELSE [fs |-> moved.fs,
             out |-> [call EXCEPT !.returned = "key", !.rkey = Some(dest_key)]]

\* rrmdir
RECURSIVE rrmdir(_, _, _)
rrmdir(fs, mroot, curpath) ==
    IF IsDir(fs, Node(curpath)) /\ ListDir(fs, Node(curpath)) = {} /\ mroot # curpath
    THEN rrmdir([fs EXCEPT !.dirs = @ \ {Node(curpath)}], mroot, os_path_dirname(curpath))
    ELSE fs

\* remove_key
fs_remove_key(cfg, fs, key) ==
    LET p == convert_key_to_filepath(cfg, key)
        filepath == FullPath(cfg, p.path)
        removed == os_remove(fs, filepath)
        call == [Call("remove_key") EXCEPT !.key = key]
    IN IF p.raised # "" THEN [fs |-> fs, out |-> [call EXCEPT !.raised = p.raised]]
       ELSE IF ~Exists(fs, Node(filepath))
       THEN [fs |-> fs, out |-> [call EXCEPT !.returned = "False"]]
       ELSE IF removed.raised # ""
       THEN [fs |-> removed.fs, out |-> [call EXCEPT !.raised = removed.raised]]
       ELSE [fs |-> rrmdir(removed.fs, cfg.full_base_directory, os_path_dirname(filepath)),
             out |-> [call EXCEPT !.returned = "True"]]

\* _has_key
fs_has_key(cfg, fs, key) ==
    LET p == convert_key_to_filepath(cfg, key)
        call == [Call("has_key") EXCEPT !.key = key]
    IN [fs |-> fs,
        out |-> IF p.raised # "" THEN [call EXCEPT !.raised = p.raised]
                ELSE [call EXCEPT !.returned =
                         IF IsFile(fs, Node(FullPath(cfg, p.path))) THEN "True" ELSE "False"]]

\* get_url_for_key with protocol=None
fs_get_url_for_key(cfg, fs, key) ==
    LET p == convert_key_to_filepath(cfg, key)
        call == [Call("get_url_for_key") EXCEPT !.key = key]
    IN [fs |-> fs,
        out |-> IF p.raised # "" THEN [call EXCEPT !.raised = p.raised]
                ELSE [call EXCEPT !.returned = "url",
                                  !.rtext = <<"f", "i", "l", "e", ":", "/", "/">>
                                            \o FullPath(cfg, p.path)]]

\* StoreBackend.is_ignored_key belongs to the base class: a key is ignored
\* when one of its elements is a reserved name
IgnoredNames == {<<".", "i">>}
is_ignored_key(key) == \E i \in 1..Len(key) : key[i] \in IgnoredNames

\* list_keys, lines 275-284: the path of each file under the base directory,
\* relative to it
WalkedFilepaths(cfg, fs) ==
    LET top == Node(cfg.full_base_directory)
    IN IF ~IsDir(fs, top) THEN {}
       ELSE {StrJoin(SubSeq(f[1], Len(top) + 1, Len(f[1])), SEP) :
                f \in {g \in fs.files : IsUnder(g[1], top)}}

\* list_keys, lines 286-293: the prefix and suffix filters
PassesFilters(cfg, filepath) ==
    IF Truthy(cfg.filepath_prefix) /\ ~StartsWith(filepath, cfg.filepath_prefix[1]) THEN FALSE
    ELSE IF Truthy(cfg.filepath_suffix) /\ ~EndsWith(filepath, cfg.filepath_suffix[1]) THEN FALSE
    ELSE TRUE

\* list_keys with prefix=(); the list is kept as the set of its elements
fs_list_keys(cfg, fs) ==
    LET kept == {fp \in WalkedFilepaths(cfg, fs) : PassesFilters(cfg, fp)}
        decoded == {convert_filepath_to_key(cfg, fp) : fp \in kept}
        raising == {r \in decoded : r.raised # ""}
    IN [fs |-> fs,
        out |-> IF raising # {}
                THEN [Call("list_keys") EXCEPT !.raised = (CHOOSE r \in raising : TRUE).raised]
                ELSE [Call("list_keys") EXCEPT
                         !.returned = "keys",
                         !.rkeys = {r.key[1] : r \in {x \in decoded :
                                       /\ x.key # None
                                       /\ Len(x.key[1]) > 0
                                       /\ ~is_ignored_key(x.key[1])}}]]

(***************************************************************************)
(* The codec on its own: a constructed backend and arbitrary keys          *)
(***************************************************************************)
MaxKeyLen == 3

\* key components tried: empty, plain, holding a template delimiter, holding a
\* dot, the parent directory, holding a path separator
Components ==
    {<<>>, <<"a">>, <<"b">>, <<"a", "-", "b">>, <<".", ".">>, <<"a", "/", "b">>}

Keys == UNION {[1..n -> Components] : n \in 0..MaxKeyLen}

TemplatesTried ==
    {<<"{0}">>,
     <<"{0}", "/", "{1}">>,
     <<"{0}", "-", "{1}">>,
     <<"{1}", "/", "{0}">>,
     <<"{0}", ".", "a">>,
     <<"a", "/", "{0}", "/", "{1}", "/", "b", "-", "{1}", ".", "t">>,
     <<"{0}", "{1}">>,
     <<"{0}", ".", "{1}">>,
     <<"{1}">>,
     <<>>}

CodecConfigs ==
    {[FilesystemDefaults EXCEPT !.filepath_template = Some(t),
                                !.platform_specific_separator = pss] :
        t \in TemplatesTried, pss \in BOOLEAN}
    \cup
    {[FilesystemDefaults EXCEPT !.filepath_prefix = p, !.filepath_suffix = s,
                                !.platform_specific_separator = pss] :
        p \in {None, Some(<<"p">>), Some(<<"p", "q">>)},
        s \in {None, Some(<<".", "j">>)}, pss \in BOOLEAN}

CodecBackends == {cfg \in CodecConfigs : Constructed(cfg)}

\* filepaths handed to the decoder that no encoding produced
PathsTried ==
    {<<>>, <<"p">>, <<"x">>, <<"p", "/", "a", ".", "j">>, <<"p", "x", ".", "j">>,
     <<"p", ".", "j">>, <<"q", "/", "a", ".", "j">>, <<"a", "/", "b">>,
     <<"a", "b", "x", "a">>, <<"a", "-", "b", "-", "a">>,
     <<"p", "q", "/", "a">>, <<"p", "q", "a">>,
     <<"a", "/", "a", "/", "b", "/", "b", "-", "a", ".", "t">>}

\* the codec is applied once to an input drawn at the start: a key to encode
\* (and to carry round), or a filepath to decode
InitCodec ==
    /\ backend \in CodecBackends
    /\ files = {}
    /\ dirs = {}
    /\ written = {}
    /\ held = {}
    /\ datasource = None
    /\ bucket = {}
    /\ last \in {[Idle EXCEPT !.op = "key", !.key = key] : key \in Keys}
                \cup {[Idle EXCEPT !.op = "filepath", !.path = path] : path \in PathsTried}

KeyToFilepath ==
    LET r == convert_key_to_filepath(backend, last.key)
    IN /\ last.op = "key"
       /\ last' = [last EXCEPT !.op = "_convert_key_to_filepath",
                               !.raised = r.raised,
                               !.returned = IF r.raised = "" THEN "path" ELSE "",
                               !.rtext = r.path]
       /\ UNCHANGED <<backend, files, dirs, written, datasource, bucket, held>>

FilepathToKey ==
    LET r == convert_filepath_to_key(backend, last.path)
    IN /\ last.op = "filepath"
       /\ last' = [last EXCEPT !.op = "_convert_filepath_to_key",
                               !.raised = r.raised,
                               !.returned = IF r.raised # "" THEN ""
                                            ELSE IF r.key = None THEN "None" ELSE "key",
                               !.rkey = r.key]
       /\ UNCHANGED <<backend, files, dirs, written, datasource, bucket, held>>

\* lines 177-178 applied to a caller's key: encode, then decode the result
RoundTrip ==
    LET filepath == convert_key_to_filepath(backend, last.key)
        new_key == convert_filepath_to_key(backend, filepath.path)
    IN /\ last.op = "key"
       /\ filepath.raised = ""
       /\ last' = [last EXCEPT !.op = "round_trip",
                               !.path = filepath.path,
                               !.raised = new_key.raised,
                               !.returned = IF new_key.raised # "" THEN ""
                                            ELSE IF new_key.key = None THEN "None" ELSE "key",
                               !.rkey = new_key.key]
       /\ UNCHANGED <<backend, files, dirs, written, datasource, bucket, held>>

NextCodec ==
    \/ KeyToFilepath
    \/ FilepathToKey
    \/ RoundTrip

SpecCodec == InitCodec /\ [][NextCodec]_vars

(***************************************************************************)
(* A filesystem backend in use                                             *)
(***************************************************************************)
MaxFiles == 2
MaxDepth == 4

KA == <<"a">>
KB == <<"b">>
\* keys used against the store: of one and two elements, and one whose second
\* element holds a forbidden substring
StoreKeys == {<<KA>>, <<KB>>, <<KA, KA>>, <<KA, <<"a", "/", "b">>>>}

Values == {"v1", "v2"}

\* names of files put under the base directory by something other than the store
ForeignNames == {<<"p", ".", "j">>}
ForeignContent == "v1"

\* (base_directory, root_directory) given to the constructor
BaseArguments ==
    {<<<<"/", "r", "/", "b">>, None>>,
     <<<<"b", "/">>, Some(<<"/", "r">>)>>,
     <<<<"b">>, None>>}

StoreConfigs ==
    {FilesystemDefaults,
     [FilesystemDefaults EXCEPT !.filepath_template = Some(<<"{0}", "/", "{1}">>)],
     [FilesystemDefaults EXCEPT !.filepath_prefix = Some(<<"p">>),
                                !.filepath_suffix = Some(<<".", "j">>)]}

\* what exists before the backend is constructed
EmptyDisk == [dirs |-> {<<>>, <<<<"e", "t", "c">>>>}, files |-> {}]

FS == [dirs |-> dirs, files |-> files]

\* TupleFilesystemStoreBackend.__init__
InitStore ==
    \E cfg \in StoreConfigs, args \in BaseArguments :
        LET full == FullBaseDirectory(args[1], args[2])
            made == makedirs(EmptyDisk, os_path_dirname(full.path))
        IN /\ Constructed(cfg)
           /\ full.raised = ""
           /\ backend = [cfg EXCEPT !.full_base_directory = full.path]
           /\ dirs = made.fs.dirs
           /\ files = made.fs.files
           /\ last = Idle
           /\ written = {}
           /\ held = {}
           /\ datasource = None
           /\ bucket = {}

WithinBounds(fs) ==
    /\ Cardinality(fs.files) <= MaxFiles
    /\ \A n \in Entries(fs) : Len(n) <= MaxDepth

\* calls are made one at a time: a call runs to its end, and its record stays
\* in last until the caller takes it (Return)
Apply(r) ==
    /\ last.op = ""
    /\ WithinBounds(r.fs)
    /\ files' = r.fs.files
    /\ dirs' = r.fs.dirs
    /\ last' = r.out
    /\ UNCHANGED <<backend, written, datasource, bucket, held>>

Get(key) == Apply(fs_get(backend, FS, key))

Set(key, value) == Apply(fs_set(backend, FS, key, value))

Move(source_key, dest_key) == Apply(fs_move(backend, FS, source_key, dest_key))

RemoveKey(key) == Apply(fs_remove_key(backend, FS, key))

HasKey(key) == Apply(fs_has_key(backend, FS, key))

GetUrlForKey(key) == Apply(fs_get_url_for_key(backend, FS, key))

ListKeys == Apply(fs_list_keys(backend, FS))

\* another program writes a file into the base directory
PutForeign(name) ==
    LET made == makedirs(FS, backend.full_base_directory)
        wrote == WriteFile(made.fs, FullPath(backend, name), ForeignContent)
    IN /\ made.raised = ""
       /\ wrote.raised = ""
       /\ Apply([fs |-> wrote.fs,
                 out |-> [Call("foreign") EXCEPT !.path = name]])

\* the caller takes the outcome
Return ==
    /\ last.op \in StoreCalls
    /\ last' = Idle
    /\ UNCHANGED <<backend, files, dirs, written, datasource, bucket, held>>

NextStore ==
    \/ \E key \in StoreKeys : Get(key)
    \/ \E key \in StoreKeys, value \in Values : Set(key, value)
    \/ \E source_key \in StoreKeys, dest_key \in StoreKeys : Move(source_key, dest_key)
    \/ \E key \in StoreKeys : RemoveKey(key)
    \/ \E key \in StoreKeys : HasKey(key)
    \/ \E key \in StoreKeys : GetUrlForKey(key)
    \/ ListKeys
    \/ \E name \in ForeignNames : PutForeign(name)
    \/ Return

SpecStore == InitStore /\ [][NextStore]_vars

(***************************************************************************)
(* The store with its history: a backend with the default arguments, and   *)
(* for each key the value of its latest successful set that no remove_key  *)
(* of the key and no move from the key has followed                        *)
(***************************************************************************)
InitHistory ==
    /\ InitStore
    /\ backend.filepath_template = None
    /\ backend.filepath_prefix = None

\* the caller takes the outcome, and the history is brought up to date
ReturnRecorded ==
    /\ last.op \in StoreCalls
    /\ last' = Idle
    /\ written' =
           IF last.op = "set" /\ last.raised = ""
           THEN {w \in written : w[1] # last.key} \cup {<<last.key, last.value>>}
           ELSE IF last.op \in {"remove_key", "move"}
           THEN {w \in written : w[1] # last.key}
           ELSE written
    /\ UNCHANGED <<backend, files, dirs, datasource, bucket, held>>

NextHistory ==
    \/ \E key \in StoreKeys : Get(key)
    \/ \E key \in StoreKeys, value \in Values : Set(key, value)
    \/ \E source_key \in StoreKeys, dest_key \in StoreKeys : Move(source_key, dest_key)
    \/ \E key \in StoreKeys : RemoveKey(key)
    \/ \E key \in StoreKeys : HasKey(key)
    \/ ListKeys
    \/ ReturnRecorded

SpecHistory == InitHistory /\ [][NextHistory]_vars

(***************************************************************************)
(* All: a backend used as a store, or its codec applied to an input        *)
(***************************************************************************)
\* the store used through calls that succeed only: a set, move or remove_key
\* that raises nothing and does not return False
Successful(call) == call.raised = "" /\ call.returned # "False"

\* the caller takes the outcome of a successful call, and the keys held are
\* brought up to date
ReturnHeld ==
    /\ last.op \in {"set", "move", "remove_key"}
    /\ last' = Idle
    /\ held' = IF last.op = "set" THEN held \cup {last.key}
               ELSE IF last.op = "move" THEN (held \ {last.key}) \cup {last.dest}
               ELSE held \ {last.key}
    /\ UNCHANGED <<backend, files, dirs, written, datasource, bucket>>

NextSuccessful ==
    \/ \E key \in StoreKeys, value \in Values : Set(key, value) /\ Successful(last')
    \/ \E source_key \in StoreKeys, dest_key \in StoreKeys :
           Move(source_key, dest_key) /\ Successful(last')
    \/ \E key \in StoreKeys : RemoveKey(key) /\ Successful(last')
    \/ ReturnHeld

SpecSuccessful == InitStore /\ [][NextSuccessful]_vars

Init == InitStore \/ InitCodec

Next == NextStore \/ NextCodec

Spec == Init /\ [][Next]_vars

(***************************************************************************)
(* Construction: TupleStoreBackend.__init__ run on given arguments          *)
(***************************************************************************)
PrefixesTried ==
    {None, Some(<<>>), Some(<<"p">>), Some(<<"p", "/">>), Some(<<"p", "_">>),
     Some(<<"p", "_", "_">>), Some(<<"/">>)}

ForbiddenTried == {DefaultForbidden, {<<"_", "_">>}, {<<"/">>, <<"_", "_">>}, {<<"_">>}}

ConstructTemplates == {None, Some(<<"{0}">>), Some(<<"{0}", "/", "{1}">>), Some(<<"{0}", "{1}">>)}

ConstructArguments ==
    {[FilesystemDefaults EXCEPT !.filepath_template = t, !.filepath_prefix = p,
                                !.filepath_suffix = x, !.forbidden_substrings = f] :
        t \in ConstructTemplates, p \in PrefixesTried,
        x \in {None, Some(<<".", "j">>)}, f \in ForbiddenTried}

\* the arguments are given; no backend object exists yet
InitConstruct ==
    /\ backend \in ConstructArguments
    /\ files = {}
    /\ dirs = {}
    /\ written = {}
    /\ held = {}
    /\ datasource = None
    /\ bucket = {}
    /\ last = [Idle EXCEPT !.op = "arguments"]

\* __init__ runs to its end: it returns, or raises one of its exceptions
Construct ==
    /\ last.op = "arguments"
    /\ \E outcome \in InitOutcomes(backend) :
           last' = [Idle EXCEPT !.op = "__init__", !.raised = outcome,
                                !.returned = IF outcome = "" THEN "backend" ELSE ""]
    /\ UNCHANGED <<backend, files, dirs, written, datasource, bucket, held>>

NextConstruct == Construct

SpecConstruct == InitConstruct /\ [][NextConstruct]_vars

(***************************************************************************)
(* SqlAlchemyDatasource.__init__ (datasource/sqlalchemy_datasource.py).    *)
(* The arguments are abstracted to what the constructor branches on: the   *)
(* keys present in kwargs and in credentials.  create_engine and           *)
(* engine.connect belong to sqlalchemy: each returns or raises, and which  *)
(* of the two is chosen by the environment.                                *)
(***************************************************************************)

\* what create_engine or connect may do: return (""), or raise
EngineOutcomes == {"", "OperationalError", "DatabaseError", "ArgumentError"}

\* except (sqlalchemy.exc.OperationalError, sqlalchemy.exc.DatabaseError)
WrappedOperationalOnly(exc) == exc = "OperationalError"

Wrapped(exc) == exc \in {"OperationalError", "DatabaseError"}

\* self.engine = create_engine(...); self.engine.connect()
CreateAndConnect(create, connect) ==
    IF create # ""
    THEN [engine |-> None, creates |-> 1, connects |-> 0, exc |-> create]
    ELSE [engine |-> Some("created"), creates |-> 1, connects |-> 1, exc |-> connect]

\* _get_sqlalchemy_connection_options raises KeyError when the credentials
\* hold neither a connection_string, a url nor a drivername
ConnectionOptionsRaise(credentials) ==
    /\ "connection_string" \notin credentials
    /\ "url" \notin credentials
    /\ "drivername" \notin credentials

\* the body of the try statement
EngineAttempt(args, create, connect) ==
    LET credentials == IF args.credentials = None THEN {} ELSE args.credentials[1]
    IN IF "engine" \in args.kwargs
       THEN [engine |-> Some("supplied"), creates |-> 0, connects |-> 0, exc |-> ""]
       ELSE IF "connection_string" \in args.kwargs
       THEN CreateAndConnect(create, connect)
       ELSE IF "url" \in credentials
       THEN CreateAndConnect(create, connect)
       ELSE IF ConnectionOptionsRaise(credentials)
       THEN [engine |-> None, creates |-> 0, connects |-> 0, exc |-> "KeyError"]
       ELSE CreateAndConnect(create, connect)

\* Datasource.__init__ keeps the name it is given in self._name
DatasourceName(args) == args.name

\* the datasource after __init__ ran to its end: cause is the exception the
\* try statement met, raised the one that left the constructor
sqlalchemy_datasource_init(args, create, connect) ==
    IF ~args.sqlalchemy
    THEN [args EXCEPT !.raised = "DatasourceInitializationError",
                      !.error_name = Some(args.name)]
    ELSE LET attempt == EngineAttempt(args, create, connect)
         IN [args EXCEPT
                !.engine = attempt.engine,
                !.creates = attempt.creates,
                !.connects = attempt.connects,
                !.cause = attempt.exc,
                !.raised = IF attempt.exc = "" THEN ""
                           ELSE IF Wrapped(attempt.exc)
                           THEN "DatasourceInitializationError"
                           ELSE attempt.exc,
                !.error_name = IF Wrapped(attempt.exc)
                               THEN Some(DatasourceName(args)) ELSE None,
                !.generators = (attempt.exc = "")]

DatasourceNames == {"default", "d"}

CredentialsTried ==
    {None, Some({}), Some({"url"}), Some({"connection_string"}),
     Some({"drivername"}), Some({"url", "drivername"})}

DatasourceArguments ==
    {[name |-> n, kwargs |-> k, credentials |-> c, sqlalchemy |-> q,
      engine |-> None, creates |-> 0, connects |-> 0, cause |-> "",
      raised |-> "", error_name |-> None, generators |-> FALSE] :
        n \in DatasourceNames, k \in SUBSET {"engine", "connection_string"},
        c \in CredentialsTried, q \in BOOLEAN}

\* the arguments are given; no datasource object exists yet
InitDatasource ==
    /\ datasource \in DatasourceArguments
    /\ backend = FilesystemDefaults
    /\ files = {}
    /\ dirs = {}
    /\ written = {}
    /\ held = {}
    /\ bucket = {}
    /\ last = [Idle EXCEPT !.op = "arguments"]

\* __init__ runs to its end: it returns, or raises
ConstructDatasource ==
    /\ last.op = "arguments"
    /\ \E create \in EngineOutcomes, connect \in EngineOutcomes :
           /\ datasource' = sqlalchemy_datasource_init(datasource, create, connect)
           /\ last' = [Idle EXCEPT !.op = "__init__",
                                   !.raised = datasource'.raised,
                                   !.returned = IF datasource'.raised = ""
                                                THEN "datasource" ELSE ""]
    /\ UNCHANGED <<backend, files, dirs, written, bucket, held>>

NextDatasource == ConstructDatasource

SpecDatasource == InitDatasource /\ [][NextDatasource]_vars

(***************************************************************************)
(* The blob backends, TupleS3StoreBackend and TupleGCSStoreBackend.  The   *)
(* bucket is a set of <<object name, content>> pairs with one content per  *)
(* name; listing with a prefix gives the names that start with it.  An S3  *)
(* _move is two requests, a copy and a delete, and the process may stop    *)
(* between them.                                                           *)
(***************************************************************************)
HasObject(objects, name) == \E o \in objects : o[1] = name

ObjectContent(objects, name) == (CHOOSE o \in objects : o[1] = name)[2]

PutObject(objects, name, content) ==
    {o \in objects : o[1] # name} \cup {<<name, content>>}

DeleteObject(objects, name) == {o \in objects : o[1] # name}

\* list_objects(Prefix=...), list_blobs(prefix=...)
ListObjects(objects, prefix) == {o[1] : o \in {x \in objects : StartsWith(x[1], prefix)}}

\* the segments of a relative path below the working directory
RelSegments(path) ==
    LET n == normpath(path) IN IF n = DOT THEN <<>> ELSE StrSplit(n, SEP)

CommonLen(a, b) ==
    CHOOSE i \in 0..Len(a) :
        /\ i <= Len(b)
        /\ \A j \in 1..i : a[j] = b[j]
        /\ (i = Len(a) \/ i = Len(b) \/ a[i + 1] # b[i + 1])

\* os.path.relpath(path, start), both relative and without ".."
os_path_relpath(path, start) ==
    LET start_list == RelSegments(start)
        path_list == RelSegments(path)
        i == CommonLen(start_list, path_list)
        rel_list == [k \in 1..(Len(start_list) - i) |-> DOTDOT]
                    \o SubSeq(path_list, i + 1, Len(path_list))
    IN IF Len(rel_list) = 0 THEN DOT ELSE StrJoin(rel_list, SEP)

\* os.path.join(self.prefix, self._convert_key_to_filepath(key)) of _get, _set
ObjectKey(cfg, filepath) == os_path_join(cfg.prefix, filepath)

\* _move: the prefix is joined only to a path that does not start with it
MoveObjectKey(cfg, filepath) ==
    IF StartsWith(filepath, cfg.prefix) THEN filepath
    ELSE os_path_join(cfg.prefix, filepath)

\* the error of a request for an object that does not exist
MissingObjectError(cfg) == IF cfg.variant = "s3" THEN "ClientError" ELSE "AttributeError"

\* _get
blob_get(cfg, objects, key) ==
    LET p == convert_key_to_filepath(cfg, key)
        name == ObjectKey(cfg, p.path)
        call == [Call("get") EXCEPT !.key = key]
    IN [objects |-> objects,
        out |-> IF p.raised # "" THEN [call EXCEPT !.raised = p.raised]
                ELSE IF ~HasObject(objects, name)
                THEN [call EXCEPT !.raised = MissingObjectError(cfg)]
                ELSE [call EXCEPT !.returned = "value",
                                  !.value = ObjectContent(objects, name)]]

\* _set; an object name is never empty
blob_set(cfg, objects, key, value) ==
    LET p == convert_key_to_filepath(cfg, key)
        name == ObjectKey(cfg, p.path)
        call == [Call("set") EXCEPT !.key = key, !.value = value]
    IN IF p.raised # "" THEN [objects |-> objects, out |-> [call EXCEPT !.raised = p.raised]]
       ELSE IF Len(name) = 0
       THEN [objects |-> objects,
             out |-> [call EXCEPT !.raised = IF cfg.variant = "s3"
                                             THEN "ParamValidationError" ELSE "BadRequest"]]
       ELSE [objects |-> PutObject(objects, name, value),
             out |-> [call EXCEPT !.returned = "path", !.rtext = name]]

\* TupleS3StoreBackend._move up to and including the copy; S3 refuses to copy
\* an object onto itself.  The call stays open ("_move") when the copy is made.
s3_move_copy(cfg, objects, source_key, dest_key) ==
    LET sp == convert_key_to_filepath(cfg, source_key)
        dp == convert_key_to_filepath(cfg, dest_key)
        source_filepath == MoveObjectKey(cfg, sp.path)
        dest_filepath == MoveObjectKey(cfg, dp.path)
        call == [Call("move") EXCEPT !.key = source_key, !.dest = dest_key]
    IN IF sp.raised # "" THEN [objects |-> objects, out |-> [call EXCEPT !.raised = sp.raised]]
       ELSE IF dp.raised # ""
       THEN [objects |-> objects, out |-> [call EXCEPT !.raised = dp.raised]]
       ELSE IF \/ ~HasObject(objects, source_filepath)
               \/ source_filepath = dest_filepath
               \/ Len(dest_filepath) = 0
       THEN [objects |-> objects, out |-> [call EXCEPT !.raised = "ClientError"]]
       ELSE [objects |-> PutObject(objects, dest_filepath,
                                   ObjectContent(objects, source_filepath)),
             out |-> [call EXCEPT !.op = "_move",
                                  !.value = ObjectContent(objects, source_filepath),
                                  !.rtext = source_filepath,
                                  !.path = dest_filepath]]

\* TupleS3StoreBackend._move after the copy: s3.Object(...).delete()
s3_move_delete(objects, call) ==
    [objects |-> DeleteObject(objects, call.rtext),
     out |-> [call EXCEPT !.op = "move", !.returned = "None"]]

\* TupleGCSStoreBackend._move: bucket.rename_blob copies, then deletes the
\* blob unless the new name is the old one
gcs_move(cfg, objects, source_key, dest_key) ==
    LET sp == convert_key_to_filepath(cfg, source_key)
        dp == convert_key_to_filepath(cfg, dest_key)
        source_filepath == MoveObjectKey(cfg, sp.path)
        dest_filepath == MoveObjectKey(cfg, dp.path)
        call == [Call("move") EXCEPT !.key = source_key, !.dest = dest_key]
    IN IF sp.raised # "" THEN [objects |-> objects, out |-> [call EXCEPT !.raised = sp.raised]]
       ELSE IF dp.raised # ""
       THEN [objects |-> objects, out |-> [call EXCEPT !.raised = dp.raised]]
       ELSE IF ~HasObject(objects, source_filepath) \/ Len(dest_filepath) = 0
       THEN [objects |-> objects, out |-> [call EXCEPT !.raised = "NotFound"]]
       ELSE [objects |->
                 IF source_filepath = dest_filepath THEN objects
                 ELSE DeleteObject(PutObject(objects, dest_filepath,
                                             ObjectContent(objects, source_filepath)),
                                   source_filepath),
             out |-> [call EXCEPT !.returned = "None",
                                  !.value = ObjectContent(objects, source_filepath),
                                  !.rtext = source_filepath,
                                  !.path = dest_filepath]]

\* list_keys; the list is kept as the set of its elements
blob_list_keys(cfg, objects) ==
    LET relative == {os_path_relpath(name, cfg.prefix) : name \in ListObjects(objects, cfg.prefix)}
        kept == {fp \in relative : PassesFilters(cfg, fp)}
        decoded == {convert_filepath_to_key(cfg, fp) : fp \in kept}
        raising == {r \in decoded : r.raised # ""}
    IN [objects |-> objects,
        out |-> IF raising # {}
                THEN [Call("list_keys") EXCEPT !.raised = (CHOOSE r \in raising : TRUE).raised]
                ELSE [Call("list_keys") EXCEPT
                         !.returned = "keys",
                         !.rkeys = {r.key[1] : r \in {x \in decoded :
                                       x.key # None /\ Len(x.key[1]) > 0}}]]

\* _has_key: key in self.list_keys()
blob_has_key(cfg, objects, key) ==
    LET listed == blob_list_keys(cfg, objects).out
        call == [Call("has_key") EXCEPT !.key = key]
    IN [objects |-> objects,
        out |-> IF listed.raised # "" THEN [call EXCEPT !.raised = listed.raised]
                ELSE [call EXCEPT !.returned =
                         IF key \in listed.rkeys THEN "True" ELSE "False"]]

\* TupleS3StoreBackend.remove_key deleting only the object of the key
s3_remove_key_single(cfg, objects, key, error) ==
    LET p == convert_key_to_filepath(cfg, key)
        call == [Call("remove_key") EXCEPT !.key = key]
    IN IF p.raised # "" THEN [objects |-> objects, out |-> [call EXCEPT !.raised = p.raised]]
       ELSE IF Len(p.path) = 0
       THEN [objects |-> objects, out |-> [call EXCEPT !.returned = "False"]]
       ELSE IF error
       THEN [objects |-> objects,
             out |-> [call EXCEPT !.returned = "False", !.caught = "ClientError"]]
       ELSE [objects |-> DeleteObject(objects, ObjectKey(cfg, p.path)),
             out |-> [call EXCEPT !.returned = "True",
                                  !.rkeys = {ObjectKey(cfg, p.path)}]]

\* TupleS3StoreBackend.remove_key; error: the listing or the delete request
\* raises ClientError.  rkeys keeps the names the delete request was given.
s3_remove_key(cfg, objects, key, error) ==
    LET p == convert_key_to_filepath(cfg, key)
        call == [Call("remove_key") EXCEPT !.key = key]
    IN IF p.raised # "" THEN [objects |-> objects, out |-> [call EXCEPT !.raised = p.raised]]
       ELSE IF Len(p.path) = 0
       THEN [objects |-> objects, out |-> [call EXCEPT !.returned = "False"]]
       ELSE IF error
       THEN [objects |-> objects,
             out |-> [call EXCEPT !.returned = "False", !.caught = "ClientError"]]
       ELSE [objects |-> {o \in objects : o[1] \notin ListObjects(objects, cfg.prefix)},
             out |-> [call EXCEPT !.returned = "True",
                                  !.rkeys = ListObjects(objects, cfg.prefix)]]

\* TupleGCSStoreBackend.remove_key; error: delete_blobs raises NotFound
gcs_remove_key(cfg, objects, key, error) ==
    LET call == [Call("remove_key") EXCEPT !.key = key]
    IN IF error
       THEN [objects |-> objects,
             out |-> [call EXCEPT !.returned = "False", !.caught = "NotFound"]]
       ELSE [objects |-> {o \in objects : o[1] \notin ListObjects(objects, cfg.prefix)},
             out |-> [call EXCEPT !.returned = "True",
                                  !.rkeys = ListObjects(objects, cfg.prefix)]]

MaxObjects == 2

\* keys tried: the empty tuple, one and two components, one that starts as
\* the prefix does, one holding a forbidden substring
BlobKeys == {<<>>, <<KA>>, <<KB>>, <<KA, KB>>, <<<<"a", "b">>>>, <<<<"a", "/", "b">>>>}

\* the prefix argument: the S3 default "", and one a key can start with
BlobPrefixes == {<<>>, <<"a">>}

BlobConfigs ==
    {[FilesystemDefaults EXCEPT !.variant = v, !.platform_specific_separator = FALSE,
                                !.full_base_directory = <<>>] @@ [prefix |-> p] :
        v \in {"s3", "gcs"}, p \in BlobPrefixes}

InitBlob ==
    /\ backend \in BlobConfigs
    /\ bucket = {}
    /\ files = {}
    /\ dirs = {}
    /\ written = {}
    /\ held = {}
    /\ datasource = None
    /\ last = Idle

BlobCalls == {"get", "set", "move", "remove_key", "has_key", "list_keys", "stopped"}

BlobApply(r) ==
    /\ last.op = ""
    /\ Cardinality(r.objects) <= MaxObjects
    /\ bucket' = r.objects
    /\ last' = r.out
    /\ UNCHANGED <<backend, files, dirs, written, datasource, held>>

BlobGet(key) == BlobApply(blob_get(backend, bucket, key))

BlobSet(key, value) == BlobApply(blob_set(backend, bucket, key, value))

\* an S3 move begins: everything up to the copy; a GCS move is one request
BlobMove(source_key, dest_key) ==
    BlobApply(IF backend.variant = "s3"
              THEN s3_move_copy(backend, bucket, source_key, dest_key)
              ELSE gcs_move(backend, bucket, source_key, dest_key))

\* the S3 move goes on after the copy: the source object is deleted
BlobMoveDelete ==
    /\ last.op = "_move"
    /\ bucket' = s3_move_delete(bucket, last).objects
    /\ last' = s3_move_delete(bucket, last).out
    /\ UNCHANGED <<backend, files, dirs, written, datasource, held>>

\* the process stops between the copy and the delete
BlobMoveStopped ==
    /\ last.op = "_move"
    /\ last' = [last EXCEPT !.op = "stopped"]
    /\ UNCHANGED <<backend, files, dirs, written, datasource, bucket, held>>

BlobRemoveKey(key) ==
    \E error \in BOOLEAN :
        BlobApply(IF backend.variant = "s3"
                  THEN s3_remove_key(backend, bucket, key, error)
                  ELSE gcs_remove_key(backend, bucket, key, error))

BlobHasKey(key) == BlobApply(blob_has_key(backend, bucket, key))

BlobListKeys == BlobApply(blob_list_keys(backend, bucket))

\* the caller takes the outcome (after a stop: a new process starts)
BlobReturn ==
    /\ last.op \in BlobCalls
    /\ last' = Idle
    /\ UNCHANGED <<backend, files, dirs, written, datasource, bucket, held>>

NextBlob ==
    \/ \E key \in BlobKeys : BlobGet(key)
    \/ \E key \in BlobKeys, value \in Values : BlobSet(key, value)
    \/ \E source_key \in BlobKeys, dest_key \in BlobKeys : BlobMove(source_key, dest_key)
    \/ BlobMoveDelete
    \/ BlobMoveStopped
    \/ \E key \in BlobKeys : BlobRemoveKey(key)
    \/ \E key \in BlobKeys : BlobHasKey(key)
    \/ BlobListKeys
    \/ BlobReturn

SpecBlob == InitBlob /\ [][NextBlob]_vars

(***************************************************************************)
(* Properties                                                              *)
(***************************************************************************)
Encodes(key) == convert_key_to_filepath(backend, key).raised = ""
KeyNode(key) == Node(FullPath(backend, convert_key_to_filepath(backend, key).path))
After == [dirs |-> dirs', files |-> files']
BaseNode == Node(backend.full_base_directory)
HoldsForbidden(key) ==
    \E i \in 1..Len(key) :
        \E substring \in backend.forbidden_substrings : Contains(key[i], substring)
HasEmptyElement(key) == \E i \in 1..Len(key) : key[i] = <<>>

\* C1: on a backend constructed with a template, every key of the template's
\* arity whose elements are non-empty and hold no forbidden substring comes
\* back unchanged from encoding and then decoding.
C1_RoundTrip ==
    (/\ last.op = "round_trip"
     /\ backend.filepath_template # None
     /\ Len(last.key) = key_length(backend)
     /\ ~HasEmptyElement(last.key)
     /\ ~HoldsForbidden(last.key))
    => (last.raised = "" /\ last.rkey = Some(last.key))

C3_MoveMissingSource ==
    [][(/\ last'.op = "move"
        /\ Encodes(last'.key)
        /\ Encodes(last'.dest)
        /\ ~IsFile(FS, KeyNode(last'.key)))
       => (/\ last'.raised = ""
           /\ last'.returned = "False"
           /\ files' = files
           /\ dirs' = dirs)]_vars

\* C4: a move from a key holding v to another key that returns does return
\* the destination key; afterwards get(dst) is v, has_key(src) is false and
\* every other stored key keeps its value.
C4_MoveExistingSource ==
    [][(/\ last'.op = "move"
        /\ last'.raised = ""
        /\ Encodes(last'.key)
        /\ Encodes(last'.dest)
        /\ last'.key # last'.dest
        /\ IsFile(FS, KeyNode(last'.key)))
       => (/\ last'.returned = "key"
           /\ last'.rkey = Some(last'.dest)
           /\ fs_get(backend, After, last'.dest).out.raised = ""
           /\ fs_get(backend, After, last'.dest).out.value = Content(FS, KeyNode(last'.key))
           /\ fs_has_key(backend, After, last'.key).out.returned = "False"
           /\ \A k \in StoreKeys \ {last'.key, last'.dest} :
                  (Encodes(k) /\ fs_get(backend, FS, k).out.raised = "")
                  => fs_get(backend, After, k).out = fs_get(backend, FS, k).out)]_vars

\* C5: remove_key of an existing key deletes its file, leaves no empty
\* directory between the file and the base directory, and removes neither the
\* base directory nor a directory above it.
C5_CleanupStopsAtBase ==
    [][(/\ last'.op = "remove_key"
        /\ Encodes(last'.key)
        /\ IsFile(FS, KeyNode(last'.key)))
       => (/\ ~IsFile(After, KeyNode(last'.key))
           /\ \A d \in Ancestors(KeyNode(last'.key)) :
                  (IsUnder(d, BaseNode) /\ IsDir(After, d)) => ListDir(After, d) # {}
           /\ \A d \in Ancestors(BaseNode) \cup {BaseNode} :
                  IsDir(FS, d) => IsDir(After, d))]_vars

\* C6: remove_key(k) returns True when it deleted the object at k, and returns
\* False, changing nothing, when no object existed at k.
C6_RemoveKeyResult ==
    [][(last'.op = "remove_key" /\ Encodes(last'.key))
       => IF IsFile(FS, KeyNode(last'.key))
          THEN last'.returned = "True" /\ ~IsFile(After, KeyNode(last'.key))
          ELSE /\ last'.raised = ""
               /\ last'.returned = "False"
               /\ files' = files
               /\ dirs' = dirs]_vars

\* C7: list_keys never raises, and every key it returns is the decoding of a
\* stored path that passes the prefix and suffix filters, and is not ignored.
C7_ListFiltering ==
    last.op = "list_keys" =>
        /\ last.raised = ""
        /\ \A k \in last.rkeys :
               /\ ~is_ignored_key(k)
               /\ \E fp \in WalkedFilepaths(backend, FS) :
                      /\ PassesFilters(backend, fp)
                      /\ convert_filepath_to_key(backend, fp).key = Some(k)

\* C8: with a template, encoding a key whose length differs from the number of
\* distinct placeholders fails and produces no path.
C8_ArityEnforced ==
    (/\ last.op = "_convert_key_to_filepath"
     /\ Truthy(backend.filepath_template)
     /\ Len(last.key) # key_length(backend))
    => (last.raised # "" /\ last.returned = "")

\* C9: encoding a key with a forbidden substring fails, and a key that is
\* accepted addresses no path outside the segments given to it: its path does
\* not climb out through a leading "..".
C9_KeysConfined ==
    last.op = "_convert_key_to_filepath" =>
        /\ HoldsForbidden(last.key) => last.raised # ""
        /\ last.raised = "" => Head(StrSplit(last.rtext, SEP)) # DOTDOT

\* the key without its empty elements
RECURSIVE StripEmpty(_)
StripEmpty(key) ==
    IF key = <<>> THEN <<>>
    ELSE IF Head(key) = <<>> THEN StripEmpty(Tail(key))
    ELSE <<Head(key)>> \o StripEmpty(Tail(key))

C11_PrefixRejected ==
    (/\ last.op = "__init__"
     /\ Truthy(backend.filepath_prefix)
     /\ \E substring \in backend.forbidden_substrings :
            substring # <<>> /\ EndsWith(backend.filepath_prefix[1], substring))
    => last.raised # ""

\* the path as the decoder sees it after normalisation
Normalized(path) == IF backend.platform_specific_separator THEN normpath(path) ELSE path
\* the backend without its prefix, decoding a path as it stands
WithoutPrefix ==
    [backend EXCEPT !.filepath_prefix = None, !.platform_specific_separator = FALSE]

\* C12: with a prefix set the decoder raises when the normalized path has at
\* least len(prefix)+1 characters and does not start with the prefix; in every
\* other case it raises no prefix error and decodes what is left of the path
\* after its first len(prefix)+1 characters.
C12_PrefixPolicy ==
    (last.op = "_convert_filepath_to_key" /\ Truthy(backend.filepath_prefix)) =>
        LET prefix == backend.filepath_prefix[1]
            f1 == Normalized(last.path)
            rest == convert_filepath_to_key(WithoutPrefix, DropFirst(f1, Len(prefix) + 1))
        IN IF Len(f1) >= Len(prefix) + 1 /\ ~StartsWith(f1, prefix)
           THEN last.raised = "ValueError"
           ELSE last.raised = rest.raised /\ last.rkey = rest.key

\* C12 witness: a path shorter than the prefix and different from it was
\* decoded without an error.
C12_ShortPathTolerated ==
    /\ last.op = "_convert_filepath_to_key"
    /\ backend.filepath_prefix = Some(<<"p", "q">>)
    /\ backend.filepath_suffix = None
    /\ last.path = <<"x">>
    /\ last.raised = ""
    /\ last.rkey # None

\* C13: when construction goes through create_engine and connect (a
\* connection_string, a credentials url, or the remaining options) and one of
\* them raises an operational or database error, the constructor raises
\* DatasourceInitializationError with the datasource's name and never builds
\* the generators; with an engine supplied, nothing is created or connected
C13_ConnectFailureWrapped ==
    (datasource # None /\ last.op = "__init__") =>
        /\ datasource.cause \in {"OperationalError", "DatabaseError"} =>
               /\ last.raised = "DatasourceInitializationError"
               /\ datasource.error_name = Some(datasource.name)
               /\ ~datasource.generators
        /\ "engine" \in datasource.kwargs =>
               /\ datasource.connects = 0
               /\ datasource.creates = 0

C13_ConnectRefused ==
    /\ datasource # None
    /\ last.op = "__init__"
    /\ datasource.kwargs = {}
    /\ datasource.credentials = Some({"drivername"})
    /\ datasource.connects = 1
    /\ datasource.cause = "DatabaseError"
    /\ last.raised = "DatasourceInitializationError"

\* the object that _get reads and _set writes for the key holds the value
BlobHolds(key, value) ==
    LET p == convert_key_to_filepath(backend, key)
    IN p.raised = "" /\ <<ObjectKey(backend, p.path), value>> \in bucket

\* C14: once an S3 move has made its copy, and at every later point of the
\* move (before the delete, after it, or stopped between the two), the moved
\* value is stored at the source key or at the destination key; stopped
\* between the copy and the delete it is stored at both (the value is the one
\* that set stored at the source key)
C14_MoveNeverLoses ==
    (/\ backend.variant = "s3"
     /\ last.op \in {"_move", "stopped", "move"}
     /\ last.raised = ""
     /\ last.rtext = ObjectKey(backend, convert_key_to_filepath(backend, last.key).path)) =>
        /\ BlobHolds(last.key, last.value) \/ BlobHolds(last.dest, last.value)
        /\ last.op = "stopped" =>
               BlobHolds(last.key, last.value) /\ BlobHolds(last.dest, last.value)

\* remove_key reaches its bulk delete: always in the GCS backend, and in the
\* S3 backend when the key is encoded to a path that is not empty
ReachesBulkDelete(key) ==
    \/ backend.variant = "gcs"
    \/ /\ backend.variant = "s3"
       /\ convert_key_to_filepath(backend, key).raised = ""
       /\ convert_key_to_filepath(backend, key).path # <<>>

\* C15 as stated: whatever the key, a blob remove_key that met no client or
\* not-found error has returned true and left no object under the prefix
C15_AnyKeyDeletesAll ==
    (backend.variant \in {"s3", "gcs"} /\ last.op = "remove_key" /\ last.caught = "") =>
        /\ last.returned = "True"
        /\ ListObjects(bucket, backend.prefix) = {}
        /\ blob_list_keys(backend, bucket).out.rkeys = {}

\* C15, amended: a blob remove_key that reaches its bulk delete and meets no
\* client or not-found error returns true and leaves no object whose name
\* starts with the store's prefix, so that list_keys() is empty, whether or not
\* the key had an object; an S3 remove_key that does not reach the bulk delete
\* raises (invalid key) or returns false (empty path)
C15_BulkDelete ==
    (backend.variant \in {"s3", "gcs"} /\ last.op = "remove_key" /\ last.caught = "") =>
        IF ReachesBulkDelete(last.key)
        THEN /\ last.raised = ""
             /\ last.returned = "True"
             /\ ListObjects(bucket, backend.prefix) = {}
             /\ blob_list_keys(backend, bucket).out.raised = ""
             /\ blob_list_keys(backend, bucket).out.rkeys = {}
        ELSE last.raised # "" \/ last.returned = "False"

\* two objects were deleted by a remove_key of a key that had none
C15_DeletedOthers ==
    /\ backend.variant = "s3"
    /\ last.op = "remove_key"
    /\ last.returned = "True"
    /\ Cardinality(last.rkeys) = 2
    /\ ObjectKey(backend, convert_key_to_filepath(backend, last.key).path) \notin last.rkeys
    /\ bucket = {}

\* the template as the decoder uses it
TemplateUsed ==
    IF backend.platform_specific_separator
    THEN os_path_join_all(StrSplit(backend.filepath_template[1], SEP))
    ELSE backend.filepath_template[1]

\* the position, among the placeholder occurrences, of the last {index}
LastOccurrence(subs, index) ==
    CHOOSE j \in 1..Len(subs) :
        /\ PlaceholderIndex(subs[j]) = index
        /\ \A k \in (j + 1)..Len(subs) : PlaceholderIndex(subs[k]) # index

\* C16: decoding with a template (no prefix, no suffix): the regular
\* expression has one group per placeholder occurrence, in template order; a
\* path it does not match gives None and no exception; on a match the key has
\* key_length components, component i is the capture of the last occurrence
\* of {i}, and none is left unset
C16_TemplateDecode ==
    (/\ last.op = "_convert_filepath_to_key"
     /\ Truthy(backend.filepath_template)
     /\ backend.filepath_prefix = None
     /\ backend.filepath_suffix = None) =>
        LET subs == FindPlaceholders(TemplateUsed)
            captures == ReMatch(TemplateUsed, Normalized(last.path))
        IN IF captures = None
           THEN last.raised = "" /\ last.returned = "None" /\ last.rkey = None
           ELSE /\ last.raised = ""
                /\ last.rkey # None
                /\ Len(captures[1]) = Len(subs)
                /\ Len(last.rkey[1]) = key_length(backend)
                /\ \A i \in 1..key_length(backend) :
                       /\ \E j \in 1..Len(subs) : PlaceholderIndex(subs[j]) = i - 1
                       /\ last.rkey[1][i] = captures[1][LastOccurrence(subs, i - 1)]
                       /\ last.rkey[1][i] # Unset

\* a repeated placeholder whose two captures differ: the later one is kept
C16_LaterCaptureKept ==
    /\ last.op = "_convert_filepath_to_key"
    /\ backend.filepath_template =
           Some(<<"a", "/", "{0}", "/", "{1}", "/", "b", "-", "{1}", ".", "t">>)
    /\ last.path = <<"a", "/", "a", "/", "b", "/", "b", "-", "a", ".", "t">>
    /\ last.rkey = Some(<<<<"a">>, <<"a">>>>)

\* C17: on a store that began empty and saw only successful set, remove_key
\* and move calls, every directory strictly below the base directory has a
\* file somewhere beneath it
C17_NoEmptyDirectories ==
    \A d \in dirs :
        IsUnder(d, BaseNode) => \E f \in files : IsUnder(f[1], d)

\* the keys has_key answers True for, among the keys used and the keys listed
KeysHad(listed) ==
    {k \in StoreKeys \cup listed : fs_has_key(backend, FS, k).out.returned = "True"}

\* C18: on a store that began empty and saw only successful set, move and
\* remove_key calls, list_keys() gives exactly the keys for which has_key is
\* true, and these are exactly the keys set or moved to and not since removed
\* or moved away
C18_ListingAgrees ==
    last.op = "" =>
        LET listed == fs_list_keys(backend, FS).out
        IN /\ listed.raised = ""
           /\ listed.rkeys = KeysHad(listed.rkeys)
           /\ listed.rkeys = held

====
